---- MODULE Spec2Model ----
(***************************************************************************)
(* State-machine model of the usage-records page (UsageRecordsPage, file   *)
(* src/unnamed/part_000) and of the activity heatmap                       *)
(* (src/src/components/analytics/ActivityHeatmap.tsx).                     *)
(*                                                                         *)
(* One action is one turn of the UI event loop: an event handler, a timer  *)
(* callback or the continuation of an awaited fetch, followed by the       *)
(* render it causes and by every effect whose dependencies changed in that *)
(* render.  The page state is handled as a record (Cur) so that the        *)
(* functions of the component (loadRecords, loadAnalytics, ...) compose    *)
(* the way the calls in the source compose; Commit writes the record back  *)
(* to the variables.                                                       *)
(***************************************************************************)
EXTENDS Integers, Sequences, FiniteSets, Bags, TLC

----------------------------------------------------------------------------
(* Bounds of the model *)

\* requests that may be in flight at once
MaxInFlight == 3
\* pages the pagination control offers
MaxPage == 2
\* rows of one fetched page
MaxRows == 2
\* days of a gapless heatmap feed
MaxRun == 9
\* days of a heatmap feed with calendar gaps
MaxSparse == 3
\* width of the heatmap container, in pixels
MaxWidth == 62
\* requests of one day
MaxRequests == 8

----------------------------------------------------------------------------
(* Value domains *)

ALL == "__all__"
NoRecord == 0
NoTimer == 0

ConnectionStates == {"connected", "disconnected"}
PeriodValues == {"today", "yesterday"}
StatusValues == {ALL, "streaming", "standard", "failed"}
TabTypes == {"request_headers", "request_body", "response_headers", "response_body"}
PageSizeOptions == {10, 20}

Sections == <<"heatmap", "modelStats", "summary", "providerStats", "timeline">>
SectionNames == {Sections[i] : i \in 1..Len(Sections)}
NoData == "none"
Payload == "data"

\* One row of the list endpoint; status_code 0 stands for an absent code.
StatusCodes == {0, 200, 500}
RowOf(id, success, streaming, code) ==
    [id |-> id, success |-> success, is_streaming |-> streaming, status_code |-> code]

\* The rows the backend may hold: every combination of the three fields
\* the page reads, each under its own id.
AllRows ==
    { RowOf(1 + (IF s THEN 0 ELSE 6) + (IF st THEN 0 ELSE 3)
              + (CASE c = 0 -> 0 [] c = 200 -> 1 [] OTHER -> 2), s, st, c) :
        s \in BOOLEAN, st \in BOOLEAN, c \in StatusCodes }

\* The heatmap's data prop when null or without days.
NoHeatmap == [days |-> << >>, max_requests |-> 0]

VARIABLES
    connectionStatus,        \* useAuthStore: state.connectionStatus
    records, loading, error, total, page, pageSize,
    selectedPeriod, modelFilter, providerFilter, statusFilter,
    selectedRecord, detailLoading, activeTab,
    autoRefresh, autoRefreshIntervalRef, filterTimeoutRef,
    anData, anLoading, anError,      \* the five analytics triples, by section
    filterOptionsLoading, availableModels, availableProviders,
    timers,                  \* pending timeouts and active intervals
    listCalls,               \* loadRecords invocations suspended at the await
    analyticsCalls,          \* loadAnalytics invocations, by the section awaited
    optionsCalls,            \* loadFilterOptions invocations suspended at the await
    detailCalls,             \* loadRecordDetail invocations suspended at the await
    backend,                 \* rows the list endpoint may return
    notifications,           \* showNotification calls of the last turn
    closedByUser,            \* history: the drawer was closed and no row activated since
    mounted,                 \* the page is on screen (not yet torn down)
    data,                    \* ActivityHeatmap: the data prop
    clientWidth,             \* ActivityHeatmap: wrapperRef.current.clientWidth
    visibleWeeksCount        \* ActivityHeatmap: useState(0)

pageVars == << connectionStatus, records, loading, error, total, page, pageSize,
           selectedPeriod, modelFilter, providerFilter, statusFilter,
           selectedRecord, detailLoading, activeTab,
           autoRefresh, autoRefreshIntervalRef, filterTimeoutRef,
           anData, anLoading, anError,
           filterOptionsLoading, availableModels, availableProviders,
           timers, listCalls, analyticsCalls, optionsCalls, detailCalls,
           backend, notifications, closedByUser, mounted >>

\* The state of the heatmap component.
heatmapVars == << data, clientWidth, visibleWeeksCount >>

vars == << pageVars, heatmapVars >>

\* The page state as one record.
Cur ==
    [ connectionStatus |-> connectionStatus,
      records |-> records, loading |-> loading, error |-> error,
      total |-> total, page |-> page, pageSize |-> pageSize,
      selectedPeriod |-> selectedPeriod, modelFilter |-> modelFilter,
      providerFilter |-> providerFilter, statusFilter |-> statusFilter,
      selectedRecord |-> selectedRecord, detailLoading |-> detailLoading,
      activeTab |-> activeTab,
      autoRefresh |-> autoRefresh,
      autoRefreshIntervalRef |-> autoRefreshIntervalRef,
      filterTimeoutRef |-> filterTimeoutRef,
      anData |-> anData, anLoading |-> anLoading, anError |-> anError,
      filterOptionsLoading |-> filterOptionsLoading,
      availableModels |-> availableModels,
      availableProviders |-> availableProviders,
      timers |-> timers,
      listCalls |-> listCalls, analyticsCalls |-> analyticsCalls,
      optionsCalls |-> optionsCalls, detailCalls |-> detailCalls,
      backend |-> backend, notifications |-> notifications,
      closedByUser |-> closedByUser, mounted |-> mounted ]

Commit(n) ==
    /\ connectionStatus' = n.connectionStatus
    /\ records' = n.records
    /\ loading' = n.loading
    /\ error' = n.error
    /\ total' = n.total
    /\ page' = n.page
    /\ pageSize' = n.pageSize
    /\ selectedPeriod' = n.selectedPeriod
    /\ modelFilter' = n.modelFilter
    /\ providerFilter' = n.providerFilter
    /\ statusFilter' = n.statusFilter
    /\ selectedRecord' = n.selectedRecord
    /\ detailLoading' = n.detailLoading
    /\ activeTab' = n.activeTab
    /\ autoRefresh' = n.autoRefresh
    /\ autoRefreshIntervalRef' = n.autoRefreshIntervalRef
    /\ filterTimeoutRef' = n.filterTimeoutRef
    /\ anData' = n.anData
    /\ anLoading' = n.anLoading
    /\ anError' = n.anError
    /\ filterOptionsLoading' = n.filterOptionsLoading
    /\ availableModels' = n.availableModels
    /\ availableProviders' = n.availableProviders
    /\ timers' = n.timers
    /\ listCalls' = n.listCalls
    /\ analyticsCalls' = n.analyticsCalls
    /\ optionsCalls' = n.optionsCalls
    /\ detailCalls' = n.detailCalls
    /\ backend' = n.backend
    /\ notifications' = n.notifications
    /\ closedByUser' = n.closedByUser
    /\ mounted' = n.mounted
    /\ UNCHANGED heatmapVars

\* The state a turn of the event loop starts from: the notifications of the
\* turn before are not its own.
Begin(s) == [s EXCEPT !.notifications = 0]

----------------------------------------------------------------------------
(* Closures, timers and the bags of suspended calls *)

\* What the functions created in one render close over (the dependency
\* lists of loadRecords, loadAnalytics and loadFilterOptions).
Closure(s) ==
    [ connectionStatus |-> s.connectionStatus,
      page |-> s.page, pageSize |-> s.pageSize,
      selectedPeriod |-> s.selectedPeriod, modelFilter |-> s.modelFilter,
      providerFilter |-> s.providerFilter, statusFilter |-> s.statusFilter ]

One(x) == SetToBag({x})

TimerIds(s) == {t.id : t \in s.timers}

\* setTimeout / setInterval hand out an id no live timer has; `held` is the
\* id kept in the other ref.
FreshId(s, held) ==
    CHOOSE i \in 1..(Cardinality(s.timers) + 2) :
        /\ i \notin TimerIds(s) \cup {held}
        /\ \A j \in 1..(i - 1) : j \in TimerIds(s) \cup {held}

\* clearTimeout / clearInterval: a no-op for an id that is not live.
ClearTimer(s, id) == [s EXCEPT !.timers = {t \in @ : t.id # id}]

\* A faulty variant of the predicate below: "failed" ignores the status code.
StatusFilterKeeps_IgnoresCode(status, record) ==
    IF status = "streaming" THEN record.is_streaming /\ record.success
    ELSE IF status = "standard" THEN ~record.is_streaming /\ record.success
    ELSE IF status = "failed" THEN ~record.success
    ELSE TRUE

\* The status post-filter of loadRecords; status_code 0 is a falsy code.
StatusFilterKeeps(status, record) ==
    IF status = "streaming" THEN record.is_streaming /\ record.success
    ELSE IF status = "standard" THEN ~record.is_streaming /\ record.success
    ELSE IF status = "failed"
         THEN ~record.success \/ (record.status_code # 0 /\ record.status_code >= 400)
    ELSE TRUE

\* getStatusBadge: the category the badge of a row names.
getStatusBadge(record) ==
    IF ~record.success \/ (record.status_code # 0 /\ record.status_code >= 400)
    THEN "failed"
    ELSE IF record.is_streaming THEN "streaming"
    ELSE "standard"

FilterRecords(status, recs) ==
    IF status # ALL
    THEN SelectSeq(recs, LAMBDA r : StatusFilterKeeps(status, r))
    ELSE recs

----------------------------------------------------------------------------
(* The component's functions, up to their first await *)

\* A variant of loadRecords below that aborts the list fetches still in
\* flight when it sends its own.
LoadRecords_CancelsPrevious(s, c, resetPage, isSilent) ==
    IF c.connectionStatus # "connected"
    THEN [s EXCEPT !.loading = FALSE]
    ELSE [s EXCEPT !.loading = IF isSilent THEN @ ELSE TRUE,
                   !.error = "",
                   !.page = IF resetPage THEN 1 ELSE @,
                   !.listCalls = One([statusFilter |-> c.statusFilter,
                                      isSilent |-> isSilent])]

\* loadRecords(resetPage, isSilent) of the render with closure c.
LoadRecords(s, c, resetPage, isSilent) ==
    IF c.connectionStatus # "connected"
    THEN [s EXCEPT !.loading = FALSE]
    ELSE [s EXCEPT !.loading = IF isSilent THEN @ ELSE TRUE,
                   !.error = "",
                   !.page = IF resetPage THEN 1 ELSE @,
                   !.listCalls = @ (+) One([statusFilter |-> c.statusFilter,
                                            isSilent |-> isSilent])]

\* One section of loadAnalytics, up to its await: flags, then the request.
StartSection(s, k) ==
    [s EXCEPT !.anLoading[Sections[k]] = TRUE,
              !.anError[Sections[k]] = FALSE,
              !.analyticsCalls = @ (+) One(k)]

\* A variant of loadAnalytics below that starts the five fetches together.
LoadAnalytics_AllAtOnce(s, c) ==
    IF c.connectionStatus # "connected" THEN s
    ELSE StartSection(StartSection(StartSection(StartSection(StartSection(s, 1), 2), 3), 4), 5)

\* loadAnalytics() of the render with closure c.
LoadAnalytics(s, c) ==
    IF c.connectionStatus # "connected" THEN s ELSE StartSection(s, 1)

\* loadFilterOptions() of the render with closure c.
LoadFilterOptions(s, c) ==
    IF c.connectionStatus # "connected"
    THEN s
    ELSE [s EXCEPT !.filterOptionsLoading = TRUE,
                   !.optionsCalls = @ + 1]

\* loadRecordDetail(id)
LoadRecordDetail(s, id) ==
    [s EXCEPT !.detailLoading = TRUE,
              !.detailCalls = @ (+) One(id)]

----------------------------------------------------------------------------
(* Effects *)

FilterDeps(c) == <<c.selectedPeriod, c.modelFilter, c.providerFilter, c.statusFilter>>
PageDeps(c) == <<c.page, c.pageSize, c.connectionStatus>>
AnalyticsDeps(c) == <<c.connectionStatus, c.selectedPeriod>>
\* loadRecords and loadAnalytics are new functions whenever a value they
\* close over changed.
AutoRefreshDeps(s) == <<s.autoRefresh, Closure(s)>>

\* A faulty variant of the cleanup below: the timeout is left pending.
FilterCleanup_Skipped(s) == s

\* Cleanup of the debounce effect.
FilterCleanup(s) ==
    IF s.filterTimeoutRef # NoTimer THEN ClearTimer(s, s.filterTimeoutRef) ELSE s

\* Body of the debounce effect: clear the pending timeout, arm a new one
\* that will call this render's loadRecords(true).
FilterEffect(s) ==
    LET cleared == IF s.filterTimeoutRef # NoTimer
                   THEN ClearTimer(s, s.filterTimeoutRef) ELSE s
        id == FreshId(cleared, cleared.autoRefreshIntervalRef)
    IN [cleared EXCEPT
          !.timers = @ \cup {[id |-> id, kind |-> "timeout", c |-> Closure(s)]},
          !.filterTimeoutRef = id]

\* Body of the page effect.
PageEffect(s) == LoadRecords(s, Closure(s), FALSE, FALSE)

\* Body of the analytics effect.
AnalyticsEffect(s) == LoadFilterOptions(LoadAnalytics(s, Closure(s)), Closure(s))

\* A faulty variant of the cleanup below: the interval is left running.
AutoRefreshCleanup_Skipped(s) == s

\* Cleanup of the auto-refresh effect.
AutoRefreshCleanup(s) ==
    IF s.autoRefreshIntervalRef # NoTimer
    THEN ClearTimer(s, s.autoRefreshIntervalRef) ELSE s

\* Body of the auto-refresh effect.
AutoRefreshEffect(s) ==
    IF s.autoRefresh
    THEN LET c == Closure(s)
             loaded == LoadAnalytics(LoadRecords(s, c, FALSE, TRUE), c)
             id == FreshId(loaded, loaded.filterTimeoutRef)
         IN [loaded EXCEPT
               !.timers = @ \cup {[id |-> id, kind |-> "interval", c |-> c]},
               !.autoRefreshIntervalRef = id]
    ELSE IF s.autoRefreshIntervalRef # NoTimer
         THEN ClearTimer(s, s.autoRefreshIntervalRef) ELSE s

\* The commit of a render: `before` is the closure and the auto-refresh
\* flag of the previous render, s the state being rendered.  The cleanups
\* of the effects whose dependencies changed run first, then their bodies
\* in the order the component declares them.
RunEffects(before, auto, s) ==
    LET now == Closure(s)
        f == FilterDeps(before) # FilterDeps(now)
        p == PageDeps(before) # PageDeps(now)
        a == AnalyticsDeps(before) # AnalyticsDeps(now)
        r == <<auto, before>> # AutoRefreshDeps(s)
        s1 == IF f THEN FilterCleanup(s) ELSE s
        s2 == IF r THEN AutoRefreshCleanup(s1) ELSE s1
        s3 == IF f THEN FilterEffect(s2) ELSE s2
        s4 == IF p THEN PageEffect(s3) ELSE s3
        s5 == IF a THEN AnalyticsEffect(s4) ELSE s4
    IN IF r THEN AutoRefreshEffect(s5) ELSE s5

\* After teardown a state update is dropped and nothing renders; what the
\* running code did to the outside (requests, notifications, a timeout
\* that has fired) stays done.
Dropped(s, n) ==
    [s EXCEPT !.timers = n.timers,
              !.listCalls = n.listCalls,
              !.analyticsCalls = n.analyticsCalls,
              !.optionsCalls = n.optionsCalls,
              !.detailCalls = n.detailCalls,
              !.notifications = n.notifications]

\* A handler's state updates followed by the render they cause.
Render(s, n) ==
    IF s.mounted THEN RunEffects(Closure(s), s.autoRefresh, n) ELSE Dropped(s, n)

\* Teardown of the page: the cleanup of every effect runs.
Unmounted(s) == [AutoRefreshCleanup(FilterCleanup(s)) EXCEPT !.mounted = FALSE]

----------------------------------------------------------------------------
(* Construction *)

\* The useState / useRef initial values of the component.
Defaults(conn, rows) ==
    [ connectionStatus |-> conn,
      records |-> << >>, loading |-> TRUE, error |-> "",
      total |-> 0, page |-> 1, pageSize |-> 20,
      selectedPeriod |-> "today", modelFilter |-> ALL,
      providerFilter |-> ALL, statusFilter |-> ALL,
      selectedRecord |-> NoRecord, detailLoading |-> FALSE,
      activeTab |-> "request_body",
      autoRefresh |-> FALSE,
      autoRefreshIntervalRef |-> NoTimer,
      filterTimeoutRef |-> NoTimer,
      anData |-> [k \in SectionNames |-> NoData],
      anLoading |-> [k \in SectionNames |-> TRUE],
      anError |-> [k \in SectionNames |-> FALSE],
      filterOptionsLoading |-> TRUE,
      availableModels |-> << >>,
      availableProviders |-> << >>,
      timers |-> {},
      listCalls |-> EmptyBag, analyticsCalls |-> EmptyBag,
      optionsCalls |-> 0, detailCalls |-> EmptyBag,
      backend |-> rows, notifications |-> 0, closedByUser |-> FALSE,
      mounted |-> TRUE ]

\* The first commit: every effect runs once, in declaration order.
Mounted(conn, rows) ==
    AutoRefreshEffect(AnalyticsEffect(PageEffect(FilterEffect(Defaults(conn, rows)))))

\* The page variables hold the record n.
PageIs(n) ==
    /\ connectionStatus = n.connectionStatus
    /\ records = n.records
    /\ loading = n.loading
    /\ error = n.error
    /\ total = n.total
    /\ page = n.page
    /\ pageSize = n.pageSize
    /\ selectedPeriod = n.selectedPeriod
    /\ modelFilter = n.modelFilter
    /\ providerFilter = n.providerFilter
    /\ statusFilter = n.statusFilter
    /\ selectedRecord = n.selectedRecord
    /\ detailLoading = n.detailLoading
    /\ activeTab = n.activeTab
    /\ autoRefresh = n.autoRefresh
    /\ autoRefreshIntervalRef = n.autoRefreshIntervalRef
    /\ filterTimeoutRef = n.filterTimeoutRef
    /\ anData = n.anData
    /\ anLoading = n.anLoading
    /\ anError = n.anError
    /\ filterOptionsLoading = n.filterOptionsLoading
    /\ availableModels = n.availableModels
    /\ availableProviders = n.availableProviders
    /\ timers = n.timers
    /\ listCalls = n.listCalls
    /\ analyticsCalls = n.analyticsCalls
    /\ optionsCalls = n.optionsCalls
    /\ detailCalls = n.detailCalls
    /\ backend = n.backend
    /\ notifications = n.notifications
    /\ closedByUser = n.closedByUser
    /\ mounted = n.mounted

\* The page starts from the record n; its heatmap is not looked at.
Start(n) ==
    /\ PageIs(n)
    /\ data = NoHeatmap
    /\ clientWidth = 0
    /\ visibleWeeksCount = 0

----------------------------------------------------------------------------
(* Events of the user, the timers and the connection store *)

\* Requests awaiting their answer: one per suspended call.
InFlight(s) ==
    BagCardinality(s.listCalls) + BagCardinality(s.analyticsCalls)
        + s.optionsCalls + BagCardinality(s.detailCalls)

\* The bound on the requests in flight, applied to the state an event
\* leads to.
Fits(n) == InFlight(n) <= MaxInFlight

\* A turn started by the user or the connection store: the page is on
\* screen.
Step(n) == mounted /\ Fits(n) /\ Commit(n)

\* A turn started by a timer: it needs no page, only the live timer.
TimerStep(n) == Fits(n) /\ Commit(n)

disableControls == connectionStatus # "connected"

Choices(list) == {ALL} \cup {list[i] : i \in 1..Len(list)}

\* Select onChange of the period filter.
SetSelectedPeriod(v) ==
    /\ ~disableControls
    /\ v # selectedPeriod
    /\ LET s == Begin(Cur)
       IN Step(Render(s, [s EXCEPT !.selectedPeriod = v]))

\* Select onChange of the model filter.
SetModelFilter(v) ==
    /\ ~(disableControls \/ filterOptionsLoading)
    /\ v \in Choices(availableModels)
    /\ v # modelFilter
    /\ LET s == Begin(Cur)
       IN Step(Render(s, [s EXCEPT !.modelFilter = v]))

\* Select onChange of the provider filter.
SetProviderFilter(v) ==
    /\ ~(disableControls \/ filterOptionsLoading)
    /\ v \in Choices(availableProviders)
    /\ v # providerFilter
    /\ LET s == Begin(Cur)
       IN Step(Render(s, [s EXCEPT !.providerFilter = v]))

\* Select onChange of the status filter.
SetStatusFilter(v) ==
    /\ ~disableControls
    /\ v # statusFilter
    /\ LET s == Begin(Cur)
       IN Step(Render(s, [s EXCEPT !.statusFilter = v]))

\* onClick of the auto-refresh button.
ToggleAutoRefresh ==
    /\ ~(loading /\ ~autoRefresh)
    /\ LET s == Begin(Cur)
       IN Step(Render(s, [s EXCEPT !.autoRefresh = ~autoRefresh]))

\* Pages the pagination control offers for `n` rows at `size` rows a page.
PageCount(n, size) == (n + size - 1) \div size

\* handlePageChange; the pagination control is rendered while total > 0.
HandlePageChange(newPage) ==
    /\ total > 0
    /\ newPage \in 1..PageCount(total, pageSize)
    /\ newPage # page
    /\ LET s == Begin(Cur)
       IN Step(Render(s, [s EXCEPT !.page = newPage]))

\* handlePageSizeChange
HandlePageSizeChange(newSize) ==
    /\ total > 0
    /\ newSize # pageSize
    /\ LET s == Begin(Cur)
       IN Step(Render(s, [s EXCEPT !.pageSize = newSize, !.page = 1]))

\* The header's refresh button: the callback given to useHeaderRefresh.
HeaderRefresh ==
    LET s == Begin(Cur)
    IN Step(Render(s, LoadRecords(s, Closure(s), FALSE, FALSE)))

\* The auth store reports another connection status.
ConnectionChange(v) ==
    /\ v # connectionStatus
    /\ LET s == Begin(Cur)
       IN Step(Render(s, [s EXCEPT !.connectionStatus = v]))

\* handleRowClick on a row of the table; the rows are reached while the
\* drawer is not open over them.
HandleRowClick(i) ==
    /\ i \in 1..Len(records)
    /\ selectedRecord = NoRecord
    /\ LET s == Begin(Cur)
       IN Step(Render(s, LoadRecordDetail([s EXCEPT !.activeTab = "request_body",
                                                    !.closedByUser = FALSE],
                                          records[i].id)))

\* handleCloseDrawer; the drawer is open while a record is selected.
HandleCloseDrawer ==
    /\ selectedRecord # NoRecord
    /\ LET s == Begin(Cur)
       IN Step(Render(s, [s EXCEPT !.selectedRecord = NoRecord,
                                   !.closedByUser = TRUE]))

\* onClick of a tab of the drawer.
SetActiveTab(tab) ==
    /\ selectedRecord # NoRecord
    /\ ~detailLoading
    /\ tab # activeTab
    /\ LET s == Begin(Cur)
       IN Step(Render(s, [s EXCEPT !.activeTab = tab]))

\* The debounce timeout expires: the loadRecords(true) of the render that
\* armed it runs, then the render its setPage(1) causes.
FilterTimeout(t) ==
    /\ t \in timers
    /\ t.kind = "timeout"
    /\ LET s == Begin(Cur)
           fired == [s EXCEPT !.timers = @ \ {t}]
       IN TimerStep(Render(s, LoadRecords(fired, t.c, TRUE, FALSE)))

\* The auto-refresh interval elapses.
AutoRefreshTick(t) ==
    /\ t \in timers
    /\ t.kind = "interval"
    /\ LET s == Begin(Cur)
       IN TimerStep(Render(s, LoadAnalytics(LoadRecords(s, t.c, FALSE, TRUE), t.c)))

\* The page is torn down (the user navigates away).
Unmount == mounted /\ Commit(Unmounted(Begin(Cur)))

----------------------------------------------------------------------------
(* The backend's answers *)

RECURSIVE Distinct(_)
Distinct(seq) ==
    \/ Len(seq) <= 1
    \/ /\ \A i \in 2..Len(seq) : seq[i] # seq[1]
       /\ Distinct(Tail(seq))

Min(a, b) == IF a <= b THEN a ELSE b

\* Pages the list endpoint may return from the rows it holds: MaxRows of
\* them in any order, or all of them when it holds fewer.
PagesOf(rows) ==
    {p \in [1..Min(MaxRows, Cardinality(rows)) -> rows] : Distinct(p)}

LargestPageSize == CHOOSE n \in PageSizeOptions : \A m \in PageSizeOptions : m <= n

\* The total the list endpoint reports: the rows of every page, MaxPage
\* pages of them at any page size unless it holds none.
TotalOf(rows) == IF rows = {} THEN 0 ELSE MaxPage * LargestPageSize

\* { records, total } answers of usageRecordsApi.list.
ListResults(rows) ==
    { [records |-> p, total |-> TotalOf(rows)] : p \in PagesOf(rows) }

\* Names in the order String.prototype.sort leaves them.
NameOrder == <<"", "m1", "m2", "p1", "p2">>
Rank(x) == CHOOSE i \in 1..Len(NameOrder) : NameOrder[i] = x

RECURSIVE Insert(_, _)
Insert(x, sorted) ==
    IF sorted = << >> THEN <<x>>
    ELSE IF Rank(x) <= Rank(Head(sorted)) THEN <<x>> \o sorted
    ELSE <<Head(sorted)>> \o Insert(x, Tail(sorted))

RECURSIVE Sort(_)
Sort(seq) == IF seq = << >> THEN << >> ELSE Insert(Head(seq), Sort(Tail(seq)))

\* list.filter(Boolean): drops the empty names.
FilterBoolean(seq) == SelectSeq(seq, LAMBDA x : x # "")

\* { models, providers } answers of usageRecordsApi.getOptions.
OptionResults == { [models |-> <<"m1", "">>, providers |-> <<"", "p1">>] }

----------------------------------------------------------------------------
(* Continuations of the awaited fetches *)

\* loadRecords after the await, the request answered with `result`.
ListResolved(s, call, result) ==
    [s EXCEPT !.records = FilterRecords(call.statusFilter, result.records),
              !.total = result.total,
              !.loading = IF call.isSilent THEN @ ELSE FALSE,
              !.listCalls = @ (-) One(call)]

\* loadRecords after the await, the request failed.
ListRejected(s, call) ==
    [s EXCEPT !.error = IF call.isSilent THEN @ ELSE "load_error",
              !.loading = IF call.isSilent THEN @ ELSE FALSE,
              !.listCalls = @ (-) One(call)]

\* loadAnalytics goes on to the section after k, if there is one.
NextSection(s, k) == IF k < Len(Sections) THEN StartSection(s, k + 1) ELSE s

\* loadAnalytics after the await of section k, the request answered.
AnalyticsResolved(s, k) ==
    NextSection([s EXCEPT !.anData[Sections[k]] = Payload,
                          !.anLoading[Sections[k]] = FALSE,
                          !.analyticsCalls = @ (-) One(k)], k)

\* A faulty variant of the continuation below: one try block around the
\* five fetches, so that a failure ends the reload.
AnalyticsRejected_Aborts(s, k) ==
    [s EXCEPT !.anError[Sections[k]] = TRUE,
              !.anLoading[Sections[k]] = FALSE,
              !.analyticsCalls = @ (-) One(k)]

\* loadAnalytics after the await of section k, the request failed.
AnalyticsRejected(s, k) ==
    NextSection([s EXCEPT !.anError[Sections[k]] = TRUE,
                          !.anLoading[Sections[k]] = FALSE,
                          !.analyticsCalls = @ (-) One(k)], k)

\* loadFilterOptions after the await, the request answered with `result`.
OptionsResolved(s, result) ==
    [s EXCEPT !.availableModels = Sort(FilterBoolean(result.models)),
              !.availableProviders = Sort(FilterBoolean(result.providers)),
              !.filterOptionsLoading = FALSE,
              !.optionsCalls = @ - 1]

\* loadFilterOptions after the await, the request failed.
OptionsRejected(s) ==
    [s EXCEPT !.availableModels = << >>,
              !.availableProviders = << >>,
              !.filterOptionsLoading = FALSE,
              !.optionsCalls = @ - 1]

\* loadRecordDetail after the await, the request answered with the record.
DetailResolved(s, id) ==
    [s EXCEPT !.selectedRecord = id,
              !.detailLoading = FALSE,
              !.detailCalls = @ (-) One(id)]

\* A faulty variant of the continuation below: the failure is also written
\* to the page's error state.
DetailRejected_PageError(s, id) ==
    [s EXCEPT !.notifications = @ + 1,
              !.error = "load_error",
              !.detailLoading = FALSE,
              !.detailCalls = @ (-) One(id)]

\* loadRecordDetail after the await, the request failed.
DetailRejected(s, id) ==
    [s EXCEPT !.notifications = @ + 1,
              !.detailLoading = FALSE,
              !.detailCalls = @ (-) One(id)]

ListResolve(call, result) ==
    /\ BagIn(call, listCalls)
    /\ result \in ListResults(backend)
    /\ LET s == Begin(Cur)
       IN Commit(Render(s, ListResolved(s, call, result)))

ListReject(call) ==
    /\ BagIn(call, listCalls)
    /\ LET s == Begin(Cur)
       IN Commit(Render(s, ListRejected(s, call)))

AnalyticsResolve(k) ==
    /\ BagIn(k, analyticsCalls)
    /\ LET s == Begin(Cur)
       IN Commit(Render(s, AnalyticsResolved(s, k)))

AnalyticsReject(k) ==
    /\ BagIn(k, analyticsCalls)
    /\ LET s == Begin(Cur)
       IN Commit(Render(s, AnalyticsRejected(s, k)))

OptionsResolve(result) ==
    /\ optionsCalls > 0
    /\ LET s == Begin(Cur)
       IN Commit(Render(s, OptionsResolved(s, result)))

OptionsReject ==
    /\ optionsCalls > 0
    /\ LET s == Begin(Cur)
       IN Commit(Render(s, OptionsRejected(s)))

DetailResolve(id) ==
    /\ BagIn(id, detailCalls)
    /\ LET s == Begin(Cur)
       IN Commit(Render(s, DetailResolved(s, id)))

DetailReject(id) ==
    /\ BagIn(id, detailCalls)
    /\ LET s == Begin(Cur)
       IN Commit(Render(s, DetailRejected(s, id)))

----------------------------------------------------------------------------
(* The activity heatmap: calendar *)

\* A date string "YYYY-MM-DD" as its three numbers; the sentinel's empty
\* date string is NoDate.
DateOf(y, m, d) == [y |-> y, m |-> m, d |-> d]
NoDate == DateOf(0, 0, 0)

\* new Date(`${date}T00:00:00Z`): days from 2023-01-01, a Sunday.
EpochYear == 2023
IsLeap(y) == y % 4 = 0 /\ (y % 100 # 0 \/ y % 400 = 0)
MonthLen(y, m) ==
    IF m = 2 THEN (IF IsLeap(y) THEN 29 ELSE 28)
    ELSE IF m \in {4, 6, 9, 11} THEN 30 ELSE 31

RECURSIVE DaysBeforeMonth(_, _)
DaysBeforeMonth(y, m) ==
    IF m = 1 THEN 0 ELSE DaysBeforeMonth(y, m - 1) + MonthLen(y, m - 1)

RECURSIVE DaysBeforeYear(_)
DaysBeforeYear(y) ==
    IF y = EpochYear THEN 0
    ELSE DaysBeforeYear(y - 1) + (IF IsLeap(y - 1) THEN 366 ELSE 365)

DayNumber(date) ==
    DaysBeforeYear(date.y) + DaysBeforeMonth(date.y, date.m) + date.d - 1

\* A faulty variant of the weekday below: weeks counted from Monday.
getUTCDay_FromMonday(date) == (DayNumber(date) + 6) % 7

\* Date.prototype.getUTCDay: 0 = Sunday .. 6 = Saturday.
getUTCDay(date) == DayNumber(date) % 7

\* Date.prototype.getUTCMonth: 0 = January .. 11 = December.
getUTCMonth(date) == date.m - 1

----------------------------------------------------------------------------
(* The activity heatmap: layout, visible weeks, intensity *)

CELL_SIZE == 11
CELL_GAP == 3
WEEKDAY_LABEL_WIDTH == 20

\* { date: '', requests: -1, total_tokens: 0 }
Sentinel == [date |-> NoDate, requests |-> -1]
Pad(n) == [i \in 1..n |-> Sentinel]

\* A faulty variant of the turn below: on a Saturday the week is closed
\* before the day is pushed, and the day is lost with the week's reset.
LayoutDay_DropsSaturday(acc, day) ==
    LET month == getUTCMonth(day.date)
        labels == IF month # acc.currentMonth
                  THEN Append(acc.monthLabels,
                              [month |-> month, colStart |-> Len(acc.weeks)])
                  ELSE acc.monthLabels
    IN IF getUTCDay(day.date) = 6
       THEN [weeks |-> Append(acc.weeks, acc.currentWeek), monthLabels |-> labels,
             currentWeek |-> << >>, currentMonth |-> month]
       ELSE [weeks |-> acc.weeks, monthLabels |-> labels,
             currentWeek |-> Append(acc.currentWeek, day), currentMonth |-> month]

\* One turn of data.days.forEach: the month label, the push to the
\* current week, the week closed on a Saturday.
LayoutDay(acc, day) ==
    LET month == getUTCMonth(day.date)
        labels == IF month # acc.currentMonth
                  THEN Append(acc.monthLabels,
                              [month |-> month, colStart |-> Len(acc.weeks)])
                  ELSE acc.monthLabels
        week == Append(acc.currentWeek, day)
    IN IF getUTCDay(day.date) = 6
       THEN [weeks |-> Append(acc.weeks, week), monthLabels |-> labels,
             currentWeek |-> << >>, currentMonth |-> month]
       ELSE [weeks |-> acc.weeks, monthLabels |-> labels,
             currentWeek |-> week, currentMonth |-> month]

RECURSIVE LayoutDays(_, _)
LayoutDays(acc, days) ==
    IF days = << >> THEN acc
    ELSE LayoutDays(LayoutDay(acc, Head(days)), Tail(days))

\* A faulty variant of the padding below: the last week is left short.
PadLastWeek_Skipped(week) == week

\* while (currentWeek.length < 7) currentWeek.push(sentinel)
PadLastWeek(week) ==
    IF Len(week) < 7 THEN week \o Pad(7 - Len(week)) ELSE week

\* The useMemo computing { weeks, monthLabels } from the data prop.
Layout(d) ==
    IF Len(d.days) = 0 THEN [weeks |-> << >>, monthLabels |-> << >>]
    ELSE LET acc == LayoutDays([weeks |-> << >>, monthLabels |-> << >>,
                                currentWeek |-> Pad(getUTCDay(d.days[1].date)),
                                currentMonth |-> -1],
                               d.days)
         IN [weeks |-> IF Len(acc.currentWeek) > 0
                       THEN Append(acc.weeks, PadLastWeek(acc.currentWeek))
                       ELSE acc.weeks,
             monthLabels |-> acc.monthLabels]

weeks == Layout(data).weeks
monthLabels == Layout(data).monthLabels
hasData == Len(data.days) > 0

Max(a, b) == IF a >= b THEN a ELSE b

\* updateVisibleWeeks without the lower clamp Math.max(weeksCanFit, 1)
\* (a faulty variant).
UpdateVisibleWeeks_NoMinimum(width, totalWeeks) ==
    IF width <= 0 \/ totalWeeks = 0 THEN totalWeeks
    ELSE LET availableWidth == width - WEEKDAY_LABEL_WIDTH
             weeksCanFit == (availableWidth + CELL_GAP) \div (CELL_SIZE + CELL_GAP)
         IN Min(weeksCanFit, totalWeeks)

\* updateVisibleWeeks: the value it passes to setVisibleWeeksCount.
UpdateVisibleWeeks(width, totalWeeks) ==
    IF width <= 0 \/ totalWeeks = 0 THEN totalWeeks
    ELSE LET availableWidth == width - WEEKDAY_LABEL_WIDTH
             weeksCanFit == (availableWidth + CELL_GAP) \div (CELL_SIZE + CELL_GAP)
         IN Min(Max(weeksCanFit, 1), totalWeeks)

\* The useMemo computing visibleWeeks.
VisibleWeeks(all, count) ==
    IF count >= Len(all) \/ count = 0 THEN all
    ELSE SubSeq(all, Len(all) - count + 1, Len(all))

\* visibleMonthLabels keeping the labels before the window at its first
\* column (a faulty variant).
VisibleMonthLabels_Clamped(labels, totalWeeks, count) ==
    IF count >= totalWeeks \/ count = 0 THEN labels
    ELSE LET startVisibleIndex == totalWeeks - count
         IN [i \in 1..Len(labels) |->
                [labels[i] EXCEPT !.colStart = Max(@ - startVisibleIndex, 0)]]

\* The useMemo computing visibleMonthLabels.
VisibleMonthLabels(labels, totalWeeks, count) ==
    IF count >= totalWeeks \/ count = 0 THEN labels
    ELSE LET startVisibleIndex == totalWeeks - count
             kept == SelectSeq(labels, LAMBDA label : label.colStart >= startVisibleIndex)
         IN [i \in 1..Len(kept) |->
                [kept[i] EXCEPT !.colStart = @ - startVisibleIndex]]

visibleWeeks == VisibleWeeks(weeks, visibleWeeksCount)
visibleMonthLabels == VisibleMonthLabels(monthLabels, Len(weeks), visibleWeeksCount)

\* getIntensityLevel with exclusive upper bounds (a faulty variant).
getIntensityLevel_Exclusive(requests, maxRequests) ==
    IF requests = 0 THEN 0
    ELSE IF maxRequests = 0 THEN 0
    ELSE IF 4 * requests < maxRequests THEN 1
    ELSE IF 2 * requests < maxRequests THEN 2
    ELSE IF 4 * requests < 3 * maxRequests THEN 3
    ELSE 4

\* getIntensityLevel; requests / maxRequests <= 0.25 is decided as
\* 4 * requests <= maxRequests, which the division of two counts by a
\* positive count in double precision agrees with.
getIntensityLevel(requests, maxRequests) ==
    IF requests = 0 THEN 0
    ELSE IF maxRequests = 0 THEN 0
    ELSE IF 4 * requests <= maxRequests THEN 1
    ELSE IF 2 * requests <= maxRequests THEN 2
    ELSE IF 4 * requests <= 3 * maxRequests THEN 3
    ELSE 4

\* data-level and the 'empty' class of a rendered cell.
CellLevel(day, maxRequests) ==
    IF day.requests >= 0 THEN getIntensityLevel(day.requests, maxRequests) ELSE 0
CellEmpty(day) == day.requests < 0

\* The effect on [weeks.length]: it runs updateVisibleWeeks when the
\* number of weeks changed and the container is rendered.
WeeksEffect(before, d, width, count) ==
    IF Len(Layout(d).weeks) # before /\ Len(d.days) > 0
    THEN UpdateVisibleWeeks(width, Len(Layout(d).weeks)) ELSE count

\* The parent passes a new data prop.
SetData(d) ==
    /\ d # data
    /\ data' = d
    /\ visibleWeeksCount' = WeeksEffect(Len(weeks), d, clientWidth, visibleWeeksCount)
    /\ UNCHANGED << clientWidth, pageVars >>

\* The ResizeObserver or the window's resize listener fires; both exist
\* while the container is rendered.
Resize(width) ==
    /\ hasData
    /\ width # clientWidth
    /\ clientWidth' = width
    /\ visibleWeeksCount' = UpdateVisibleWeeks(width, Len(weeks))
    /\ UNCHANGED << data, pageVars >>

\* Heatmap feeds.  The i-th day of a feed carries (i - 1) requests,
\* starting over after MaxRequests.
NextDate(date) ==
    IF date.d < MonthLen(date.y, date.m) THEN [date EXCEPT !.d = @ + 1]
    ELSE IF date.m < 12 THEN DateOf(date.y, date.m + 1, 1)
    ELSE DateOf(date.y + 1, 1, 1)

RECURSIVE Run(_, _)
Run(start, n) == IF n = 0 THEN << >> ELSE << start >> \o Run(NextDate(start), n - 1)

StartDates ==
    { DateOf(2023, 12, 30), DateOf(2024, 1, 27), DateOf(2024, 1, 28),
      DateOf(2024, 1, 30), DateOf(2024, 2, 27) }

SampleDates ==
    << DateOf(2024, 1, 1), DateOf(2024, 1, 6), DateOf(2024, 1, 8),
       DateOf(2024, 2, 5), DateOf(2025, 1, 6) >>

RECURSIVE Pick(_, _)
Pick(indices, i) ==
    IF i > Len(SampleDates) THEN << >>
    ELSE (IF i \in indices THEN << SampleDates[i] >> ELSE << >>) \o Pick(indices, i + 1)

GaplessDates == { Run(start, n) : start \in StartDates, n \in 1..MaxRun }
SparseDates ==
    { Pick(indices, 1) : indices \in { I \in SUBSET (1..Len(SampleDates)) :
                                         Cardinality(I) \in 1..MaxSparse } }

DaysOf(dates) ==
    [i \in 1..Len(dates) |-> [date |-> dates[i], requests |-> (i - 1) % (MaxRequests + 1)]]

HeatmapFeeds ==
    { [days |-> DaysOf(dates), max_requests |-> MaxRequests] :
        dates \in GaplessDates \cup SparseDates }
    \cup { [days |-> DaysOf(Run(DateOf(2024, 1, 28), n)), max_requests |-> m] :
             n \in {0, MaxRun}, m \in {0, 3, 4} }

----------------------------------------------------------------------------
(* Specifications *)

\* Rows for the sessions that do not look at the status post-filter.
OneRow == {RowOf(1, TRUE, TRUE, 200)}
TwoRows == {RowOf(1, TRUE, TRUE, 200), RowOf(2, FALSE, FALSE, 500)}

\* Rows that fall on each side of every test of the status post-filter.
MixedRows ==
    { RowOf(1, TRUE, TRUE, 200), RowOf(2, TRUE, FALSE, 400), RowOf(3, FALSE, TRUE, 0) }

\* The page with every event of the user, the timers, the connection store
\* and the backend.
Init == \E conn \in ConnectionStates : Start(Mounted(conn, TwoRows))

Next ==
    \/ \E v \in PeriodValues : SetSelectedPeriod(v)
    \/ \E v \in {ALL, "m1"} : SetModelFilter(v)
    \/ \E v \in {ALL, "p1"} : SetProviderFilter(v)
    \/ \E v \in StatusValues : SetStatusFilter(v)
    \/ \E n \in 1..MaxPage : HandlePageChange(n)
    \/ \E n \in PageSizeOptions : HandlePageSizeChange(n)
    \/ HeaderRefresh
    \/ ToggleAutoRefresh
    \/ \E v \in ConnectionStates : ConnectionChange(v)
    \/ \E i \in 1..MaxRows : HandleRowClick(i)
    \/ HandleCloseDrawer
    \/ \E tab \in TabTypes : SetActiveTab(tab)
    \/ Unmount
    \/ \E t \in timers : FilterTimeout(t)
    \/ \E t \in timers : AutoRefreshTick(t)
    \/ \E call \in BagToSet(listCalls), result \in ListResults(backend) :
          ListResolve(call, result)
    \/ \E call \in BagToSet(listCalls) : ListReject(call)
    \/ \E k \in BagToSet(analyticsCalls) : AnalyticsResolve(k)
    \/ \E k \in BagToSet(analyticsCalls) : AnalyticsReject(k)
    \/ \E result \in OptionResults : OptionsResolve(result)
    \/ OptionsReject
    \/ \E id \in BagToSet(detailCalls) : DetailResolve(id)
    \/ \E id \in BagToSet(detailCalls) : DetailReject(id)

Spec == Init /\ [][Next]_vars

\* The heatmap alone, shown with a feed in a container of some width; the
\* parent passes new feeds and the container is resized.
InitHeatmap ==
    /\ PageIs([Defaults("disconnected", {}) EXCEPT !.mounted = FALSE])
    /\ data \in HeatmapFeeds
    /\ clientWidth \in 0..MaxWidth
    /\ visibleWeeksCount = WeeksEffect(0, data, clientWidth, 0)

NextHeatmap ==
    \/ \E d \in HeatmapFeeds : SetData(d)
    \/ \E width \in 0..MaxWidth : Resize(width)

SpecHeatmap == InitHeatmap /\ [][NextHeatmap]_vars

\* A session at the filters and the pagination of the table: the backend
\* is reachable throughout and answers every request.
InitList == Start(Mounted("connected", OneRow))

NextList ==
    \/ \E v \in PeriodValues : SetSelectedPeriod(v)
    \/ \E v \in {ALL, "m1"} : SetModelFilter(v)
    \/ \E v \in {ALL, "p1"} : SetProviderFilter(v)
    \/ \E v \in {ALL, "failed"} : SetStatusFilter(v)
    \/ \E n \in 1..MaxPage : HandlePageChange(n)
    \/ \E t \in timers : FilterTimeout(t)
    \/ \E call \in BagToSet(listCalls), result \in ListResults(backend) :
          ListResolve(call, result)
    \/ \E k \in BagToSet(analyticsCalls) : AnalyticsResolve(k)
    \/ \E result \in OptionResults : OptionsResolve(result)

SpecList == InitList /\ [][NextList]_vars

\* A session with auto-refresh: the user toggles it, changes the model
\* filter and the page, and the connection comes and goes.
InitRefresh == Start(Mounted("connected", OneRow))

NextRefresh ==
    \/ \E v \in {ALL, "m1"} : SetModelFilter(v)
    \/ \E n \in 1..MaxPage : HandlePageChange(n)
    \/ ToggleAutoRefresh
    \/ \E v \in ConnectionStates : ConnectionChange(v)
    \/ \E t \in timers : FilterTimeout(t)
    \/ \E t \in timers : AutoRefreshTick(t)
    \/ \E call \in BagToSet(listCalls), result \in ListResults(backend) :
          ListResolve(call, result)
    \/ \E k \in BagToSet(analyticsCalls) : AnalyticsResolve(k)
    \/ \E result \in OptionResults : OptionsResolve(result)

SpecRefresh == InitRefresh /\ [][NextRefresh]_vars

\* The same session, which the user may end by leaving the page; the
\* requests in flight are still answered afterwards.
NextTeardown == NextRefresh \/ Unmount

SpecTeardown == InitRefresh /\ [][NextTeardown]_vars

\* A session in which analytics requests may fail: reloads are started by
\* the connection coming back; the backend holds no rows.
InitAnalytics == \E conn \in ConnectionStates : Start(Mounted(conn, {}))

NextAnalytics ==
    \/ \E v \in ConnectionStates : ConnectionChange(v)
    \/ \E t \in timers : FilterTimeout(t)
    \/ \E call \in BagToSet(listCalls), result \in ListResults(backend) :
          ListResolve(call, result)
    \/ \E k \in BagToSet(analyticsCalls) : AnalyticsResolve(k)
    \/ \E k \in BagToSet(analyticsCalls) : AnalyticsReject(k)
    \/ \E result \in OptionResults : OptionsResolve(result)

SpecAnalytics == InitAnalytics /\ [][NextAnalytics]_vars

\* A session at the table rows and the detail drawer; the connection may
\* drop, and list and detail requests may fail.
InitDetail == Start(Mounted("connected", TwoRows))

NextDetail ==
    \/ \E i \in 1..MaxRows : HandleRowClick(i)
    \/ HandleCloseDrawer
    \/ \E tab \in TabTypes : SetActiveTab(tab)
    \/ ConnectionChange("disconnected")
    \/ \E t \in timers : FilterTimeout(t)
    \/ \E call \in BagToSet(listCalls), result \in ListResults(backend) :
          ListResolve(call, result)
    \/ \E call \in BagToSet(listCalls) : ListReject(call)
    \/ \E k \in BagToSet(analyticsCalls) : AnalyticsResolve(k)
    \/ \E result \in OptionResults : OptionsResolve(result)
    \/ \E id \in BagToSet(detailCalls) : DetailResolve(id)
    \/ \E id \in BagToSet(detailCalls) : DetailReject(id)

SpecDetail == InitDetail /\ [][NextDetail]_vars

\* The page once the analytics and filter-options fetches of the mount
\* were answered.
MountAnswered(s) ==
    LET a1 == AnalyticsResolved(s, 1)
        a2 == AnalyticsResolved(a1, 2)
        a3 == AnalyticsResolved(a2, 3)
        a4 == AnalyticsResolved(a3, 4)
        a5 == AnalyticsResolved(a4, 5)
    IN OptionsResolved(a5, CHOOSE result \in OptionResults : TRUE)

\* A session at the status filter, over rows of every status; it starts
\* when the fetches of the mount other than the list's were answered.
InitStatus == Start(MountAnswered(Mounted("connected", MixedRows)))

NextStatus ==
    \/ \E v \in StatusValues : SetStatusFilter(v)
    \/ \E t \in timers : FilterTimeout(t)
    \/ \E call \in BagToSet(listCalls), result \in ListResults(backend) :
          ListResolve(call, result)
    \/ \E call \in BagToSet(listCalls) : ListReject(call)

SpecStatus == InitStatus /\ [][NextStatus]_vars

----------------------------------------------------------------------------
(* Properties *)

\* Requests sent by the step: some kind of call has more copies in flight
\* after the step than before it.
Grows(before, after) ==
    \E x \in BagToSet(after) : CopiesIn(x, after) > CopiesIn(x, before)

ListSent == BagCardinality(listCalls') - BagCardinality(listCalls)
AnalyticsSent == Grows(analyticsCalls, analyticsCalls')
OptionsSent == optionsCalls' > optionsCalls
DetailSent == Grows(detailCalls, detailCalls')
IntervalTimers == {t \in timers : t.kind = "interval"}
DefaultFilters == FilterDeps(Closure(Defaults("connected", {})))

\* C1: when the debounce timeout armed by a change of the period, model,
\* provider or status filter expires, the page is reset to 1 and exactly
\* one list fetch is issued, whatever the page was.
C1_OneDebouncedFetch ==
    [][\A t \in timers :
          (FilterDeps(t.c) # DefaultFilters /\ FilterTimeout(t))
             => (page' = 1 /\ ListSent = 1)]_vars

\* C2: no step issues a fetch of any kind (list, analytics, filter options,
\* detail) unless the connection status it renders with is "connected".
C2_FetchOnlyConnected ==
    [][(ListSent > 0 \/ AnalyticsSent \/ OptionsSent \/ DetailSent)
          => connectionStatus' = "connected"]_vars

\* C3: a reload fired by auto-refresh (on enabling it and on each tick)
\* sets no loading flag to true, neither the list's nor a section's, and
\* a failed silent list fetch leaves the displayed rows as they were.
C3_AutoRefreshSilent ==
    [][/\ ((ToggleAutoRefresh /\ autoRefresh') \/ \E t \in timers : AutoRefreshTick(t))
            => /\ loading' => loading
               /\ \A name \in SectionNames : anLoading'[name] => anLoading[name]
       /\ \A call \in BagToSet(listCalls) :
            (call.isSilent /\ ListReject(call))
               => (records' = records /\ total' = total)]_vars

\* C4: while auto-refresh is disabled no interval timer is active, and no
\* step is a reload started by the auto-refresh timer.
C4_NoIntervalWhenDisabled ==
    /\ [](~autoRefresh => IntervalTimers = {})
    /\ [][~autoRefresh => ~\E t \in timers : AutoRefreshTick(t)]_vars

\* Auto-refresh was enabled, the model filter and the page changed, and it
\* is disabled again while its silent list fetch is still in flight.
C4_Witness ==
    /\ ~autoRefresh
    /\ modelFilter # ALL
    /\ page # 1
    /\ \E call \in BagToSet(listCalls) : call.isSilent

\* C5: when the fetch of analytics section k fails, that section's error
\* flag is set and its loading flag is false, the next section's fetch is
\* issued, no section's data changes and no other error flag is raised.
C5_FailureIsLocal ==
    [][\A k \in 1..Len(Sections) :
          (CopiesIn(k, analyticsCalls') < CopiesIn(k, analyticsCalls) /\ AnalyticsReject(k))
             => /\ anError'[Sections[k]]
                /\ k < Len(Sections)
                     => CopiesIn(k + 1, analyticsCalls')
                           = CopiesIn(k + 1, analyticsCalls) + 1
                /\ ~anLoading'[Sections[k]]
                /\ anData' = anData
                /\ \A j \in 1..Len(Sections) :
                      j # k => (anError'[Sections[j]] => anError[Sections[j]])]_vars

\* The heatmap fetch failed and the four fetches after it were issued and
\* answered.
C5_Witness ==
    /\ anError["heatmap"]
    /\ ~anLoading["heatmap"]
    /\ anData["heatmap"] = NoData
    /\ \A k \in 2..Len(Sections) :
          anData[Sections[k]] = Payload /\ ~anError[Sections[k]]

\* C6, as stated: whenever an analytics fetch is in flight, all five are.
C6_AllInFlightTogether ==
    analyticsCalls # EmptyBag
       => \A k \in 1..Len(Sections) : BagIn(k, analyticsCalls)

\* C6, amended: the five fetches of a reload are issued one after another
\* in the order heatmap, model stats, summary, provider stats, timeline;
\* a reload starts with the heatmap fetch alone, and the fetch of a later
\* section is issued only in the step in which a fetch of the section
\* before it settles.
C6_IssuedInSequence ==
    /\ \A k \in 2..Len(Sections) : ~BagIn(k, analyticsCalls)
    /\ [][\A k \in 2..Len(Sections) :
             CopiesIn(k, analyticsCalls') > CopiesIn(k, analyticsCalls)
                => CopiesIn(k - 1, analyticsCalls') < CopiesIn(k - 1, analyticsCalls)]_vars

\* The heatmap fetch was answered and the model-stats fetch is in flight,
\* the three sections after it not yet requested.
C6_Witness ==
    /\ anData["heatmap"] = Payload
    /\ BagToSet(analyticsCalls) = {2}
    /\ anData["timeline"] = NoData

\* C7: a change of the model, provider or status filter, and the debounced
\* reload it arms, issue no analytics fetch and no filter-options fetch.
C7_FiltersAffectTableOnly ==
    [][(\/ \E v \in {ALL, "m1"} : SetModelFilter(v)
        \/ \E v \in {ALL, "p1"} : SetProviderFilter(v)
        \/ \E v \in StatusValues : SetStatusFilter(v)
        \/ \E t \in timers : FilterTimeout(t))
          => (~AnalyticsSent /\ ~OptionsSent)]_vars

\* C8: once the drawer was closed, and until a row is activated again, no
\* detail record is selected.
C8_ClosedStaysClosed == closedByUser => selectedRecord = NoRecord

\* C9: a failed detail fetch raises exactly one notification, leaves
\* records, total, page, the list's error and loading flag and the
\* selected record unchanged, and sets detailLoading to false.
C9_DetailFailureIsLocal ==
    [][\A id \in BagToSet(detailCalls) :
          DetailReject(id)
             => /\ notifications' = 1
                /\ records' = records
                /\ total' = total
                /\ page' = page
                /\ error' = error
                /\ loading' = loading
                /\ selectedRecord' = selectedRecord
                /\ ~detailLoading']_vars

\* A detail fetch failed while the drawer showed another record.
C9_Witness ==
    /\ notifications = 1
    /\ selectedRecord # NoRecord
    /\ ~detailLoading
    /\ error = ""

\* The classification the status filter S stands for.
Satisfies(S, row) ==
    CASE S = "streaming" -> row.is_streaming /\ row.success
      [] S = "standard" -> ~row.is_streaming /\ row.success
      [] S = "failed" -> ~row.success \/ (row.status_code # 0 /\ row.status_code >= 400)
      [] OTHER -> TRUE

\* C10: when a list fetch made under status filter S is answered, the
\* displayed rows are the rows of the answered page that satisfy S, in the
\* page's order, and total is the total the server reported.
C10_StatusPostFilter ==
    [][\A call \in BagToSet(listCalls), result \in ListResults(backend) :
          (listCalls' = listCalls (-) One(call) /\ ListResolve(call, result))
             => /\ records' = SelectSeq(result.records,
                                        LAMBDA row : Satisfies(call.statusFilter, row))
                /\ total' = result.total]_vars

\* Under the "failed" filter a page of a streaming success and a failure
\* shows the failure alone, and total is the total the server reported.
C10_Witness ==
    /\ Len(records) = 1
    /\ ~records[1].success
    /\ total = TotalOf(backend)
    /\ ~loading

\* No calendar day is missing between two days of the feed.
Contiguous(days) ==
    \A i \in 1..(Len(days) - 1) :
        DayNumber(days[i + 1].date) = DayNumber(days[i].date) + 1

\* C11, as stated: for every non-empty chronological feed, with or without
\* calendar gaps, every week of the layout has exactly 7 entries.
C11_SevenPerWeek ==
    hasData => \A w \in 1..Len(weeks) : Len(weeks[w]) = 7

\* C11, amended: for every non-empty chronological feed without calendar
\* gaps, every week of the layout has exactly 7 entries.
C11_SevenPerWeekGapless ==
    (hasData /\ Contiguous(data.days))
       => \A w \in 1..Len(weeks) : Len(weeks[w]) = 7

\* A gapless feed laid out in three weeks, the first and the last of them
\* padded.
C11_Witness ==
    /\ Contiguous(data.days)
    /\ Len(weeks) = 3
    /\ weeks[1][1] = Sentinel
    /\ weeks[3][7] = Sentinel

RECURSIVE Concat(_)
Concat(seqs) == IF seqs = << >> THEN << >> ELSE Head(seqs) \o Concat(Tail(seqs))

IsSentinel(day) == day.requests = -1 /\ day.date = NoDate

\* C12: the weeks of the layout, concatenated in order and with the
\* sentinel entries removed, are the days of the feed, for feeds with and
\* without gaps; a feed without days gives no weeks and no month labels.
C12_RoundTrip ==
    /\ SelectSeq(Concat(weeks), LAMBDA day : ~IsSentinel(day)) = data.days
    /\ ~hasData => (weeks = << >> /\ monthLabels = << >>)

\* A feed with gaps that is laid out in two weeks or more.
C12_Witness ==
    /\ Len(data.days) >= 3
    /\ ~Contiguous(data.days)
    /\ Len(weeks) >= 2

\* The weekday of a calendar date, 0 = Sunday .. 6 = Saturday: 2023-01-01
\* was a Sunday.
WeekdayOf(date) == DayNumber(date) % 7

\* Every real day of every week sits at the index that is its weekday.
DaysAtTheirWeekday ==
    \A w \in 1..Len(weeks) : \A i \in 1..Len(weeks[w]) :
        ~IsSentinel(weeks[w][i]) => i - 1 = WeekdayOf(weeks[w][i].date)

\* The first real day of week 0 sits at the index that is its weekday,
\* with only sentinels before it.
FirstDayAtItsWeekday ==
    LET first == data.days[1]
        k == WeekdayOf(first.date)
    IN /\ Len(weeks[1]) > k
       /\ weeks[1][k + 1] = first
       /\ \A i \in 1..k : weeks[1][i] = Sentinel

\* C13, as stated: for every feed, the first real day of week 0 sits at its
\* weekday after sentinels only, and every real day of every week sits at
\* the index of its own weekday.
C13_WeekdayIndex ==
    hasData => (FirstDayAtItsWeekday /\ DaysAtTheirWeekday)

\* C13, amended: for every feed the first real day of week 0 sits at its
\* weekday after sentinels only; for a feed without calendar gaps every
\* real day of every week sits at the index of its own weekday.
C13_WeekdayIndexGapless ==
    hasData => /\ FirstDayAtItsWeekday
               /\ Contiguous(data.days) => DaysAtTheirWeekday

\* A gapless feed that starts on a Tuesday and runs into a second week.
C13_Witness ==
    /\ hasData
    /\ Contiguous(data.days)
    /\ WeekdayOf(data.days[1].date) = 2
    /\ Len(weeks) = 2
    /\ ~IsSentinel(weeks[2][1])

\* The calendar months (year and month) of a chronological feed, each once,
\* in order.
RECURSIVE MonthsOf(_)
MonthsOf(days) ==
    IF days = << >> THEN << >>
    ELSE LET before == MonthsOf(SubSeq(days, 1, Len(days) - 1))
             this == [y |-> days[Len(days)].date.y, m |-> days[Len(days)].date.m]
         IN IF before # << >> /\ before[Len(before)] = this THEN before
            ELSE Append(before, this)

\* C14: the month labels are strictly increasing in week-column index, and
\* there is exactly one label per calendar month (year and month) of the
\* feed, in chronological order.
C14_MonthLabels ==
    /\ \A i \in 1..(Len(monthLabels) - 1) :
          monthLabels[i].colStart < monthLabels[i + 1].colStart
    /\ Len(monthLabels) = Len(MonthsOf(data.days))
    /\ \A i \in 1..Len(monthLabels) :
          monthLabels[i].month = MonthsOf(data.days)[i].m - 1

\* C14 for gapless feeds only.
C14_MonthLabelsGapless == Contiguous(data.days) => C14_MonthLabels

\* The cells of the laid-out weeks.
Cells == UNION { { weeks[w][i] : i \in 1..Len(weeks[w]) } : w \in 1..Len(weeks) }

\* The quarter of maxRequests that a positive count falls in: the least k
\* with requests / maxRequests <= k / 4, and 4 when there is none below 4.
QuarterOf(requests, maxRequests) ==
    IF \E k \in 1..3 : 4 * requests <= k * maxRequests
    THEN CHOOSE k \in 1..3 : /\ 4 * requests <= k * maxRequests
                             /\ \A j \in 1..(k - 1) : 4 * requests > j * maxRequests
    ELSE 4

\* C15: a cell with requests >= 0 has a level in 0..4: 0 when requests = 0
\* or maxRequests = 0, otherwise the quarter of maxRequests its count falls
\* in, upper bounds included; a sentinel cell has level 0 and is marked empty.
C15_IntensityLevel ==
    \A day \in Cells :
        /\ day.requests >= 0 =>
              /\ CellLevel(day, data.max_requests) \in 0..4
              /\ CellLevel(day, data.max_requests) =
                    IF day.requests = 0 \/ data.max_requests = 0 THEN 0
                    ELSE QuarterOf(day.requests, data.max_requests)
        /\ day.requests < 0 =>
              /\ CellLevel(day, data.max_requests) = 0
              /\ CellEmpty(day)

\* Cells at exactly 25%, 50%, 75% and 100% of a positive maximum, next to a
\* sentinel cell.
C15_Witness ==
    /\ data.max_requests > 0
    /\ \A k \in 1..4 : \E day \in Cells :
          /\ 4 * day.requests = k * data.max_requests
          /\ CellLevel(day, data.max_requests) = k
    /\ Sentinel \in Cells

Clamp(x, lo, hi) == IF x < lo THEN lo ELSE IF x > hi THEN hi ELSE x

\* floor((containerWidth - 20 + 3) / (11 + 3)) clamped to [1, totalWeeks].
WeeksThatFit(width, totalWeeks) == Clamp((width - 20 + 3) \div (11 + 3), 1, totalWeeks)

\* C16: for every container width, 0 and widths narrower than the gutter
\* included, a resize sets the number of visible weeks to
\* floor((containerWidth - 20 + 3) / (11 + 3)) clamped to [1, totalWeeks].
C16_WeeksThatFit ==
    [][\A width \in 0..MaxWidth :
          Resize(width) => visibleWeeksCount' = WeeksThatFit(width, Len(weeks))]_vars

\* C16 amended: a resize to a positive width sets the number of visible
\* weeks to the clamped quotient; a resize to width 0 makes all weeks visible.
C16_WeeksThatFitOrAll ==
    [][\A width \in 0..MaxWidth :
          Resize(width) =>
              visibleWeeksCount' = IF width <= 0 THEN Len(weeks)
                                   ELSE WeeksThatFit(width, Len(weeks))]_vars

\* A container narrower than the gutter shows one of several weeks, the
\* lower end of the clamp.
C16_Witness ==
    /\ clientWidth \in 1..(WEEKDAY_LABEL_WIDTH - 1)
    /\ Len(weeks) >= 2
    /\ visibleWeeksCount = 1

\* C17: when the visible week count n satisfies 1 <= n < totalWeeks, the
\* visible weeks are the last n weeks in order, and the visible month labels
\* are the labels whose column is at least totalWeeks - n, in order, each
\* with its column reduced by totalWeeks - n; labels before the window are
\* dropped, and every visible label's column lies in 0..n-1.
C17_TrailingWindow ==
    LET n == visibleWeeksCount
        first == Len(weeks) - n
        inWindow == { i \in 1..Len(monthLabels) : monthLabels[i].colStart >= first }
    IN (1 <= n /\ n < Len(weeks)) =>
          /\ Len(visibleWeeks) = n
          /\ \A k \in 1..n : visibleWeeks[k] = weeks[first + k]
          /\ Len(visibleMonthLabels) = Cardinality(inWindow)
          /\ \A j \in 1..Len(visibleMonthLabels) :
                \E i \in inWindow :
                    /\ Cardinality({ h \in inWindow : h <= i }) = j
                    /\ visibleMonthLabels[j].month = monthLabels[i].month
                    /\ visibleMonthLabels[j].colStart = monthLabels[i].colStart - first
                    /\ visibleMonthLabels[j].colStart \in 0..(n - 1)

\* A window that cuts off a month label and keeps a later one.
C17_Witness ==
    /\ 1 <= visibleWeeksCount /\ visibleWeeksCount < Len(weeks)
    /\ Len(visibleMonthLabels) >= 1
    /\ Len(visibleMonthLabels) < Len(monthLabels)
    /\ visibleMonthLabels[1].colStart = 0
    /\ visibleMonthLabels[1].month # monthLabels[1].month

\* C18: a list fetch, once sent, leaves the fetches in flight only by its
\* own settlement; records and total change only when a list fetch is
\* answered, and every answer, whatever else is in flight, overwrites them
\* with its own rows and total: the last answer to arrive is what is shown.
C18_LastAnswerWins ==
    [][/\ \A call \in BagToSet(listCalls) :
             CopiesIn(call, listCalls') < CopiesIn(call, listCalls)
                => /\ listCalls' = listCalls (-) One(call)
                   /\ \/ ListReject(call)
                      \/ \E result \in ListResults(backend) : ListResolve(call, result)
       /\ (records' # records \/ total' # total)
             => \E call \in BagToSet(listCalls), result \in ListResults(backend) :
                   ListResolve(call, result)
       /\ \A call \in BagToSet(listCalls), result \in ListResults(backend) :
             (listCalls' = listCalls (-) One(call) /\ ListResolve(call, result))
                => /\ records' = SelectSeq(result.records,
                                           LAMBDA row : Satisfies(call.statusFilter, row))
                   /\ total' = result.total]_vars

\* Every list fetch has settled without an error and no reload is pending,
\* the status filter is "failed", and the table shows a successful row: the
\* answer to an older query arrived after the answer to the latest one.
C18_Witness ==
    /\ listCalls = EmptyBag
    /\ timers = {}
    /\ ~loading
    /\ error = ""
    /\ statusFilter = "failed"
    /\ \E i \in 1..Len(records) : ~Satisfies("failed", records[i])

TimersOf(kind) == { t \in timers : t.kind = kind }

\* C19: at every moment at most one debounce timeout is pending and at most
\* one auto-refresh interval is active, each the one its ref holds (the one
\* before it was cleared); after teardown no timer exists, and no turn of a
\* timer, hence no reload started by one, takes place.
C19_TimersCleared ==
    /\ [](/\ Cardinality(TimersOf("timeout")) <= 1
          /\ Cardinality(TimersOf("interval")) <= 1
          /\ \A t \in TimersOf("timeout") : t.id = filterTimeoutRef
          /\ \A t \in TimersOf("interval") : t.id = autoRefreshIntervalRef
          /\ ~mounted => timers = {})
    /\ [][~mounted => \A t \in timers : ~FilterTimeout(t) /\ ~AutoRefreshTick(t)]_vars

\* The page was torn down while auto-refresh was on and a debounce timeout
\* was pending, with requests still in flight: both timers are gone.
C19_Witness ==
    /\ ~mounted
    /\ autoRefresh
    /\ filterTimeoutRef # NoTimer
    /\ autoRefreshIntervalRef # NoTimer
    /\ filterTimeoutRef # autoRefreshIntervalRef
    /\ timers = {}
    /\ listCalls # EmptyBag

\* C20: whenever a loading flag is true (the list's, one of the five
\* analytics sections', the filter options', the detail's), a fetch for
\* that section is in flight, or the analytics reload that is running has
\* not yet come to that section.
C20_LoadingMeansFetching ==
    /\ loading => listCalls # EmptyBag
    /\ \A k \in 1..Len(Sections) :
          anLoading[Sections[k]] => \E j \in 1..k : BagIn(j, analyticsCalls)
    /\ filterOptionsLoading => optionsCalls > 0
    /\ detailLoading => detailCalls # EmptyBag

\* C21: whenever a section's loading flag is false, no non-silent fetch for
\* that section is in flight (the list's, the detail's, each of the five
\* analytics sections'): with overlapping fetches the flag stays true until
\* the last of them has settled.
C21_IdleMeansSettled ==
    /\ ~loading => \A call \in BagToSet(listCalls) : call.isSilent
    /\ ~detailLoading => detailCalls = EmptyBag
    /\ \A k \in 1..Len(Sections) :
          ~anLoading[Sections[k]] => ~BagIn(k, analyticsCalls)

\* C22: when a list fetch made under the "streaming", "standard" or
\* "failed" filter is answered, every row then displayed carries the badge
\* of that same category, whatever its success, is_streaming and
\* status_code.
C22_BadgeMatchesFilter ==
    [][\A call \in BagToSet(listCalls), result \in ListResults(backend) :
          (/\ call.statusFilter # ALL
           /\ listCalls' = listCalls (-) One(call)
           /\ ListResolve(call, result))
             => \A i \in 1..Len(records') :
                   getStatusBadge(records'[i]) = call.statusFilter]_vars

====
